---- MODULE Spec2Model ----
(***************************************************************************)
(* GraphicsManager of nphysics_testbed3d (engine.rs): the registry that    *)
(* maps a rigid body, keyed by the address of its Rc allocation, to the    *)
(* scene nodes built from its shape tree, the color cache, the color       *)
(* stream and the two cameras.                                             *)
(*                                                                         *)
(* Lengths are integers.  A color is a triple of integers in units of      *)
(* 2^-24 (the 24 bits an f32 drawn from the generator carries), so that    *)
(* 1.0 is 16777216 and 0.5 is 8388608.  An isometry is a quarter-turn      *)
(* rotation of the plane followed by an integer translation: a subgroup    *)
(* of Iso3 in which composition is not commutative.                        *)
(***************************************************************************)
EXTENDS Integers, Sequences, FiniteSets, TLC

\* ------------------------------------------------------------- bounds

\* Scene objects the window can hold at once.
MaxObjects == 3

\* Colors drawn from the stream after the warm-up.
MaxDraws == 2

\* Bodies the simulation ever allocates.
MaxAllocs == 3

\* Shared borrows of a body the caller keeps at once.
MaxBorrows == 1

\* ---------------------------------------------------- program constants

\* for _ in range(0u, 100): colors discarded by new()
WarmUp == 100

\* indices.as_slice().chunks(3)
ChunkLen == 3

\* ------------------------------------------------------------ isometries

Iso(r, x, y) == [rot |-> r, tx |-> x, ty |-> y]

\* na::one()
IsoOne == Iso(0, 0, 0)

\* The rotation by r quarter turns applied to the vector v.
Rotate(r, v) ==
    CASE r = 0 -> v
      [] r = 1 -> << -v[2], v[1] >>
      [] r = 2 -> << -v[1], -v[2] >>
      [] OTHER -> << v[2], -v[1] >>

\* delta * t: t first, then delta.
IsoMul(d, t) ==
    LET v == Rotate(d.rot, << t.tx, t.ty >>)
    IN  Iso((d.rot + t.rot) % 4, d.tx + v[1], d.ty + v[2])

\* ---------------------------------------------------------------- colors

\* Pnt3::new(0.5, 0.5, 0.5)
Gray == << 8388608, 8388608, 8388608 >>

Red == << 16777216, 0, 0 >>

Blue == << 0, 0, 16777216 >>

\* The colors a caller passes to set_color and add_with_color.
Palette == { Red, Blue }

\* XorShiftRng seeded with [0, 2, 4, 8]: the Pnt3<f32> values number 100,
\* 101, ... of the stream, each coordinate being next_u32() >> 8.
XorShiftStream ==
    << << 7934186, 2198802, 2367172 >>,
       << 10401749, 6294601, 2710208 >>,
       << 16496558, 14388773, 14273448 >>,
       << 2517988, 6352174, 13297543 >>,
       << 5171205, 3661407, 4083631 >>,
       << 13133139, 13019894, 215580 >> >>

\* self.rand.gen() with n colors drawn since the seed.
gen(n) == XorShiftStream[n - WarmUp + 1]

\* ---------------------------------------------------------------- shapes

Plane(n) == [kind |-> "Plane", normal |-> n]

Ball(r) == [kind |-> "Ball", radius |-> r]

Cuboid(hx, hy, hz) == [kind |-> "Cuboid", half_extents |-> << hx, hy, hz >>]

Cylinder(hh, r) == [kind |-> "Cylinder", half_height |-> hh, radius |-> r]

Cone(hh, r) == [kind |-> "Cone", half_height |-> hh, radius |-> r]

Convex(pts) == [kind |-> "Convex", points |-> pts]

Mesh(vs, is) == [kind |-> "Mesh", vertices |-> vs, indices |-> is]

BezierSurface(cps, nu, nv) ==
    [kind |-> "BezierSurface", control_points |-> cps, nupoints |-> nu, nvpoints |-> nv]

\* shapes: the ordered (local transform, sub-shape) pairs.
Compound(ss) == [kind |-> "Compound", shapes |-> ss]

\* A Shape3 the classifier has no branch for.
Capsule(hh, r) == [kind |-> "Capsule", half_height |-> hh, radius |-> r]

\* ---------------------------------------------------------------- bodies

\* A RigidBody.  Its heap cell [live, id, sim, rb, borrow] is the Rc
\* allocation that holds it: id numbers the allocations in the order they
\* were made (it tells a body from an earlier one that lived at the same
\* address and is no part of the key), sim says that a handle is held outside
\* the registry (by the simulation), borrow is the flag of the RefCell.
RigidBody(shape, can_move, margin, position) ==
    [shape |-> shape, can_move |-> can_move, margin |-> margin, position |-> position]

\* The Rc<RefCell<RigidBody>> handle of the body in heap cell c.
Handle(a, c) == [addr |-> a, id |-> c.id]

\* body.deref() as *const RefCell<RigidBody> as uint
key(body) == body.addr

\* The borrow flag of a RefCell: the number of shared borrows (Ref) that
\* are outstanding, or WRITING while an exclusive one (RefMut) is.
UNUSED == 0

WRITING == -1

\* RefCell::borrow panics when the flag is WRITING, and else hands out a Ref.
try_borrow(flag) == flag # WRITING

\* RefCell::borrow_mut panics unless the flag is UNUSED.
try_borrow_mut(flag) == flag = UNUSED

\* The flag once a Ref is handed out.
Ref(flag) == flag + 1

\* The flag once a Ref is dropped.
drop(flag) == flag - 1

\* ------------------------------------------------------ rendering engine

\* The scene object a node constructor creates in the window: one that the
\* window does not hold yet.
NewObject(win) == CHOOSE o \in 1..MaxObjects : o \notin win /\ \A p \in 1..(o - 1) : p \in win

\* A node constructor (Ball::new, Box::new, ...): the node, whose scene
\* object is added to the window.
NewNode(win, kind, body, fields, color) ==
    [kind |-> kind, body |-> body, color |-> color, object |-> NewObject(win)] @@ fields

\* What one classifier call leaves: the window, the nodes pushed so far and
\* whether it panicked.
Pushed(win, out, node) ==
    [window |-> win \cup {node.object}, out |-> Append(out, node), panic |-> FALSE]

Panicked(win, out) == [window |-> win, out |-> out, panic |-> TRUE]

\* ------------------------------------------- shape classifier and factory

add_plane(win, h, rb, shape, color, out) ==
    LET position == << rb.position.tx, rb.position.ty >>
        normal   == Rotate(rb.position.rot, shape.normal)
    IN  Pushed(win, out,
               NewNode(win, "Plane", h, [position |-> position, normal |-> normal], color))

\* slice.chunks(n): consecutive chunks of n elements, the last one shorter
\* when n does not divide the length.
chunks(s, n) ==
    [i \in 1..((Len(s) + n - 1) \div n) |->
        SubSeq(s, (i - 1) * n + 1, IF i * n < Len(s) THEN i * n ELSE Len(s))]

\* i[0], i[1], i[2] of a chunk: an index past the chunk's end panics.
add_mesh(win, h, rb, delta, shape, color, out) ==
    LET cs == chunks(shape.indices, ChunkLen)
        is == [i \in 1..Len(cs) |-> << cs[i][1], cs[i][2], cs[i][3] >>]
    IN  IF \E i \in 1..Len(cs) : Len(cs[i]) <= 2
        THEN Panicked(win, out)
        ELSE Pushed(win, out,
                    NewNode(win, "Mesh", h,
                            [delta |-> delta, vs |-> shape.vertices, is |-> is], color))

add_bezier_surface(win, h, rb, delta, shape, color, out) ==
    Pushed(win, out,
           NewNode(win, "BezierSurface", h,
                   [delta |-> delta, control_points |-> shape.control_points,
                    nupoints |-> shape.nupoints, nvpoints |-> shape.nvpoints], color))

\* add_ball building the ball with the radius of the shape alone.
add_ball_without_margin(win, h, rb, delta, shape, color, out) ==
    Pushed(win, out,
           NewNode(win, "Ball", h, [delta |-> delta, radius |-> shape.radius], color))

add_ball(win, h, rb, delta, shape, color, out) ==
    LET margin == rb.margin
    IN  Pushed(win, out,
               NewNode(win, "Ball", h, [delta |-> delta, radius |-> shape.radius + margin], color))

add_box(win, h, rb, delta, shape, color, out) ==
    LET rx == shape.half_extents[1] + rb.margin
        ry == shape.half_extents[2] + rb.margin
        rz == shape.half_extents[3] + rb.margin
    IN  Pushed(win, out,
               NewNode(win, "Box", h, [delta |-> delta, rx |-> rx, ry |-> ry, rz |-> rz], color))

\* procedural::convex_hull3 of points on a line: its two extreme points.
convex_hull3(points) ==
    << CHOOSE p \in points : \A q \in points : p <= q,
       CHOOSE p \in points : \A q \in points : q <= p >>

add_convex(win, h, rb, delta, shape, color, out) ==
    Pushed(win, out,
           NewNode(win, "Convex", h,
                   [delta |-> delta, hull |-> convex_hull3(shape.points)], color))

add_cylinder(win, h, rb, delta, shape, color, out) ==
    LET r  == shape.radius
        hh == shape.half_height * 2
    IN  Pushed(win, out,
               NewNode(win, "Cylinder", h, [delta |-> delta, r |-> r, h |-> hh], color))

add_cone(win, h, rb, delta, shape, color, out) ==
    LET r  == shape.radius
        hh == shape.half_height * 2
    IN  Pushed(win, out,
               NewNode(win, "Cone", h, [delta |-> delta, r |-> r, h |-> hh], color))

RECURSIVE add_shape(_, _, _, _, _, _, _)
RECURSIVE add_shapes(_, _, _, _, _, _, _, _)
RECURSIVE add_shapes_leaves_first(_, _, _, _, _, _, _, _)
RECURSIVE add_shapes_local_first(_, _, _, _, _, _, _, _)
RECURSIVE add_shape_skips(_, _, _, _, _, _, _)

\* add_shapes composing the transforms the other way round: t * delta.
add_shapes_local_first(win, h, rb, delta, ss, i, color, out) ==
    IF i > Len(ss)
    THEN [window |-> win, out |-> out, panic |-> FALSE]
    ELSE LET r == add_shape(win, h, rb, IsoMul(ss[i][1], delta), ss[i][2], color, out)
         IN  IF r.panic
             THEN r
             ELSE add_shapes_local_first(r.window, h, rb, delta, ss, i + 1, color, r.out)

\* add_shapes visiting the nested compounds of a compound after its leaves.
add_shapes_leaves_first(win, h, rb, delta, ss, i, color, out) ==
    LET n     == Len(ss)
        order == SelectSeq(ss, LAMBDA p : p[2].kind # "Compound")
                    \o SelectSeq(ss, LAMBDA p : p[2].kind = "Compound")
    IN  IF i > n
        THEN [window |-> win, out |-> out, panic |-> FALSE]
        ELSE LET r == add_shape(win, h, rb, IsoMul(delta, order[i][1]), order[i][2], color, out)
             IN  IF r.panic
                 THEN r
                 ELSE add_shapes_leaves_first(r.window, h, rb, delta,
                                              SubSeq(order, i + 1, n), 1, color, r.out)

\* for &(t, ref s) in c.shapes().iter(): the iterations from the i-th on.
\* A panic in one iteration ends the loop.
add_shapes(win, h, rb, delta, ss, i, color, out) ==
    IF i > Len(ss)
    THEN [window |-> win, out |-> out, panic |-> FALSE]
    ELSE LET r == add_shape(win, h, rb, IsoMul(delta, ss[i][1]), ss[i][2], color, out)
         IN  IF r.panic
             THEN r
             ELSE add_shapes(r.window, h, rb, delta, ss, i + 1, color, r.out)

\* add_shape skipping a shape it has no branch for.
add_shape_skips(win, h, rb, delta, shape, color, out) ==
    LET id == shape.kind
    IN  IF id = "Plane" THEN add_plane(win, h, rb, shape, color, out)
        ELSE IF id = "Ball" THEN add_ball(win, h, rb, delta, shape, color, out)
        ELSE IF id = "Cuboid" THEN add_box(win, h, rb, delta, shape, color, out)
        ELSE IF id = "Convex" THEN add_convex(win, h, rb, delta, shape, color, out)
        ELSE IF id = "Cylinder" THEN add_cylinder(win, h, rb, delta, shape, color, out)
        ELSE IF id = "Cone" THEN add_cone(win, h, rb, delta, shape, color, out)
        ELSE IF id = "BezierSurface"
             THEN add_bezier_surface(win, h, rb, delta, shape, color, out)
        ELSE IF id = "Compound" THEN add_shapes(win, h, rb, delta, shape.shapes, 1, color, out)
        ELSE IF id = "Mesh" THEN add_mesh(win, h, rb, delta, shape, color, out)
        ELSE [window |-> win, out |-> out, panic |-> FALSE]

add_shape(win, h, rb, delta, shape, color, out) ==
    LET id == shape.kind
    IN  IF id = "Plane" THEN add_plane(win, h, rb, shape, color, out)
        ELSE IF id = "Ball" THEN add_ball(win, h, rb, delta, shape, color, out)
        ELSE IF id = "Cuboid" THEN add_box(win, h, rb, delta, shape, color, out)
        ELSE IF id = "Convex" THEN add_convex(win, h, rb, delta, shape, color, out)
        ELSE IF id = "Cylinder" THEN add_cylinder(win, h, rb, delta, shape, color, out)
        ELSE IF id = "Cone" THEN add_cone(win, h, rb, delta, shape, color, out)
        ELSE IF id = "BezierSurface"
             THEN add_bezier_surface(win, h, rb, delta, shape, color, out)
        ELSE IF id = "Compound" THEN add_shapes(win, h, rb, delta, shape.shapes, 1, color, out)
        ELSE IF id = "Mesh" THEN add_mesh(win, h, rb, delta, shape, color, out)
        ELSE Panicked(win, out)

\* ------------------------------------------------------------ the bodies

\* The heap addresses an Rc<RefCell<RigidBody>> can be allocated at.
Addr == { 1, 2 }

\* A cross as in examples3/compound.rs, with one arm a nested compound that
\* ends in an empty compound: two leaves.
Cross ==
    Compound(<< << Iso(0, 0, -5), Cuboid(5, 1, 1) >>,
                << Iso(1, -5, 0),
                   Compound(<< << Iso(1, 2, 0), Cylinder(1, 1) >>,
                               << Iso(0, 1, 1), Compound(<< >>) >> >>) >> >>)

\* A mesh of two triangles, a convex hull nested two levels down and a
\* bezier patch: three leaves.
Terrain ==
    Compound(<< << Iso(0, 1, 0), Mesh(4, << 0, 1, 2, 0, 2, 3 >>) >>,
                << Iso(2, 0, 1), Compound(<< << Iso(1, 0, 2), Convex({ 3, -1, 2 }) >> >>) >>,
                << Iso(3, 0, 0), BezierSurface(<< 0, 1, 2, 3 >>, 2, 2) >> >>)

\* A mesh whose index buffer does not hold a whole number of triangles.
Ragged == Mesh(5, << 0, 1, 2, 0, 2, 3, 0, 3, 4, 0 >>)

\* The bodies the simulation creates (RigidBody::new, new_static).
Shapes ==
    { RigidBody(Ball(2), TRUE, 1, Iso(0, 0, 3)),
      RigidBody(Plane(<< 0, 1 >>), FALSE, 1, Iso(1, 0, 2)),
      RigidBody(Cross, TRUE, 1, Iso(0, 1, 1)),
      RigidBody(Terrain, FALSE, 2, Iso(0, 0, 0)),
      RigidBody(Ragged, TRUE, 1, Iso(0, 0, 0)),
      RigidBody(Compound(<< >>), FALSE, 1, Iso(0, 0, 0)),
      RigidBody(Compound(<< << Iso(0, 1, 0), Cone(2, 1) >>,
                            << Iso(0, -1, 0), Capsule(1, 1) >> >>), TRUE, 1, Iso(0, 0, 0)),
      RigidBody(Capsule(2, 1), FALSE, 1, Iso(0, 0, 0)) }

\* The bodies created beside them: a dynamic ball and a static plane, as in
\* examples3/balls_vee.rs.
Companions ==
    { RigidBody(Ball(1), TRUE, 1, Iso(0, 2, 0)),
      RigidBody(Plane(<< 1, 1 >>), FALSE, 1, Iso(0, 0, 0)) }

\* The bodies of the world at address a.
Bodies(a) == IF a = 1 THEN Shapes ELSE Companions

\* Bodies of the solids whose size the classifier reads, with margins 0, 1
\* and 2.
Solids ==
    { RigidBody(Compound(<< << Iso(0, 1, 0), Ball(1) >>,
                            << Iso(2, 0, 0), Cuboid(1, 1, 2) >>,
                            << Iso(1, 0, 1), Cone(1, 3) >> >>), TRUE, 2, Iso(1, 1, 1)),
      RigidBody(Cylinder(2, 1), FALSE, 1, Iso(3, 0, 2)),
      RigidBody(Ball(2), TRUE, 0, Iso(0, 0, 0)) }

\* ----------------------------------------------------------------- state

VARIABLES
    heap,              \* address -> the body allocated there, or NoBody
    allocs,            \* bodies ever allocated
    rand,              \* GraphicsManager.rand: colors drawn since the seed
    rb2sn,             \* GraphicsManager.rb2sn: key -> nodes
    rb2color,          \* GraphicsManager.rb2color: key -> color
    arc_ball,          \* GraphicsManager.arc_ball
    first_person,      \* GraphicsManager.first_person
    curr_is_arc_ball,  \* GraphicsManager.curr_is_arc_ball
    aabbs,             \* GraphicsManager.aabbs
    window,            \* the scene objects the window holds
    fatal,             \* the task panicked
    sn_by,             \* key -> id of the body the rb2sn entry was written for
    color_by,          \* key -> id of the body the rb2color entry was written for
    last               \* the operation that led to this state

vars ==
    << heap, allocs, rand, rb2sn, rb2color, arc_ball, first_person, curr_is_arc_ball,
       aabbs, window, fatal, sn_by, color_by, last >>

cameras == << arc_ball, first_person, curr_is_arc_ball >>

NoBody == [live |-> FALSE]

NoHandle == [addr |-> 0, id |-> 0]

\* HashMap::new()
EmptyMap == [k \in {} |-> 0]

\* HashMap::insert
Insert(m, k, v) == [x \in DOMAIN m \cup {k} |-> IF x = k THEN v ELSE m[x]]

\* HashMap::remove
Erase(m, k) == [x \in DOMAIN m \ {k} |-> m[x]]

\* The scene objects of a node sequence.
Objects(sns) == { sns[i].object : i \in 1..Len(sns) }

\* The addresses whose Rc a node of the registry holds.
Held(sn) == UNION { { sn[k][i].body.addr : i \in 1..Len(sn[k]) } : k \in DOMAIN sn }

\* Rc: an allocation is freed when its last handle is dropped.
Dropped(h, sn) ==
    [a \in Addr |-> IF h[a].live /\ ~h[a].sim /\ a \notin Held(sn) THEN NoBody ELSE h[a]]

\* No color: of an operation that takes, resolves or removes none.
NoColor == << >>

\* An operation as last records it: its name, the handle passed, whether the
\* map it looks the key up in held an entry (rb2color for add and set_color,
\* rb2sn for remove), the id of the body that entry was written for, and the
\* color passed (set_color, add_with_color), resolved (add) or carried by the
\* nodes removed (remove).
Op(op, body, found, by, color) ==
    [op |-> op, body |-> body, found |-> found, by |-> by, color |-> color]

\* The shapes of a shape tree that are no compound.
RECURSIVE Leaves(_)
Leaves(shape) ==
    IF shape.kind = "Compound"
    THEN LET RECURSIVE Cat(_)
             Cat(i) == IF i > Len(shape.shapes) THEN << >>
                       ELSE Leaves(shape.shapes[i][2]) \o Cat(i + 1)
         IN  Cat(1)
    ELSE << shape >>

\* GraphicsManager::new
new ==
    /\ arc_ball = [eye |-> << 10, 10, 10 >>, at |-> << 0, 0, 0 >>]
    /\ first_person = [eye |-> << 10, 10, 10 >>, at |-> << 0, 0, 0 >>]
    /\ curr_is_arc_ball = TRUE
    /\ rand = WarmUp
    /\ rb2sn = EmptyMap
    /\ rb2color = EmptyMap
    /\ aabbs = << >>

\* A world of bodies, the one at address a among world[a] and each held by
\* the simulation, and a fresh registry.
Fresh(world) ==
    /\ heap \in [Addr -> { [live |-> TRUE, id |-> i, sim |-> TRUE, rb |-> rb, borrow |-> UNUSED] :
                                i \in Addr, rb \in UNION { world[a] : a \in Addr } }]
    /\ \A a \in Addr : heap[a].id = a /\ heap[a].rb \in world[a]
    /\ allocs = Cardinality(Addr)
    /\ new
    /\ window = {}
    /\ fatal = FALSE
    /\ sn_by = EmptyMap
    /\ color_by = EmptyMap
    /\ last = Op("new", NoHandle, FALSE, 0, NoColor)

Init == Fresh([a \in Addr |-> Bodies(a)])

\* A caller can pass the body at address a: it lives and a handle to it is
\* held outside the registry.  A panicked task runs no further operation.
Callable(a) == ~fatal /\ heap[a].live /\ heap[a].sim

\* ------------------------------------------------------------ operations

\* clear emptying the color cache with the registry.
clear_forgets_colors ==
    /\ ~fatal
    /\ window' = (window \ UNION { Objects(rb2sn[k]) : k \in DOMAIN rb2sn })
                    \ { aabbs[i] : i \in 1..Len(aabbs) }
    /\ rb2sn' = EmptyMap
    /\ rb2color' = EmptyMap
    /\ aabbs' = << >>
    /\ sn_by' = EmptyMap
    /\ color_by' = EmptyMap
    /\ heap' = Dropped(heap, rb2sn')
    /\ last' = Op("clear", NoHandle, FALSE, 0, NoColor)
    /\ UNCHANGED << allocs, rand, cameras, fatal >>

\* GraphicsManager::clear
clear ==
    /\ ~fatal
    /\ window' = (window \ UNION { Objects(rb2sn[k]) : k \in DOMAIN rb2sn })
                    \ { aabbs[i] : i \in 1..Len(aabbs) }
    /\ rb2sn' = EmptyMap
    /\ aabbs' = << >>
    /\ sn_by' = EmptyMap
    /\ heap' = Dropped(heap, rb2sn')
    /\ last' = Op("clear", NoHandle, FALSE, 0, NoColor)
    /\ UNCHANGED << allocs, rand, rb2color, cameras, fatal, color_by >>

\* remove erasing the entry and leaving its scene objects in the window.
remove_keeps_objects(a) ==
    LET body == Handle(a, heap[a])
    IN  /\ Callable(a)
        /\ rb2sn' = Erase(rb2sn, key(body))
        /\ sn_by' = Erase(sn_by, key(body))
        /\ heap' = Dropped(heap, rb2sn')
        /\ last' = Op("remove", body, key(body) \in DOMAIN rb2sn,
                      IF key(body) \in DOMAIN rb2sn THEN sn_by[key(body)] ELSE 0,
                      IF key(body) \in DOMAIN rb2sn /\ rb2sn[key(body)] # << >>
                      THEN rb2sn[key(body)][1].color ELSE NoColor)
        /\ UNCHANGED << allocs, rand, rb2color, cameras, aabbs, window, fatal, color_by >>

\* remove unwrapping the entry: a panic when the body has none.
remove_unwrap(a) ==
    LET body == Handle(a, heap[a])
    IN  /\ Callable(a)
        /\ window' = IF key(body) \in DOMAIN rb2sn
                     THEN window \ Objects(rb2sn[key(body)])
                     ELSE window
        /\ fatal' = (key(body) \notin DOMAIN rb2sn)
        /\ rb2sn' = Erase(rb2sn, key(body))
        /\ sn_by' = Erase(sn_by, key(body))
        /\ heap' = Dropped(heap, rb2sn')
        /\ last' = Op("remove", body, key(body) \in DOMAIN rb2sn,
                      IF key(body) \in DOMAIN rb2sn THEN sn_by[key(body)] ELSE 0,
                      IF key(body) \in DOMAIN rb2sn /\ rb2sn[key(body)] # << >>
                      THEN rb2sn[key(body)][1].color ELSE NoColor)
        /\ UNCHANGED << allocs, rand, rb2color, cameras, aabbs, color_by >>

\* GraphicsManager::remove
remove(a) ==
    LET body == Handle(a, heap[a])
    IN  /\ Callable(a)
        /\ window' = IF key(body) \in DOMAIN rb2sn
                     THEN window \ Objects(rb2sn[key(body)])
                     ELSE window
        /\ rb2sn' = Erase(rb2sn, key(body))
        /\ sn_by' = Erase(sn_by, key(body))
        /\ heap' = Dropped(heap, rb2sn')
        /\ last' = Op("remove", body, key(body) \in DOMAIN rb2sn,
                      IF key(body) \in DOMAIN rb2sn THEN sn_by[key(body)] ELSE 0,
                      IF key(body) \in DOMAIN rb2sn /\ rb2sn[key(body)] # << >>
                      THEN rb2sn[key(body)][1].color ELSE NoColor)
        /\ UNCHANGED << allocs, rand, rb2color, cameras, aabbs, fatal, color_by >>

\* set_color giving the new color to the nodes the body already has.
set_color_recolors(a, color) ==
    LET body == Handle(a, heap[a])
    IN  /\ Callable(a)
        /\ rb2color' = Insert(rb2color, key(body), color)
        /\ color_by' = Insert(color_by, key(body), body.id)
        /\ rb2sn' = [k \in DOMAIN rb2sn |->
                        IF k = key(body)
                        THEN [i \in 1..Len(rb2sn[k]) |-> [rb2sn[k][i] EXCEPT !.color = color]]
                        ELSE rb2sn[k]]
        /\ last' = Op("set_color", body, key(body) \in DOMAIN rb2color,
                      IF key(body) \in DOMAIN rb2color THEN color_by[key(body)] ELSE 0, color)
        /\ UNCHANGED << heap, allocs, rand, cameras, aabbs, window, fatal, sn_by >>

\* GraphicsManager::set_color
set_color(a, color) ==
    LET body == Handle(a, heap[a])
    IN  /\ Callable(a)
        /\ rb2color' = Insert(rb2color, key(body), color)
        /\ color_by' = Insert(color_by, key(body), body.id)
        /\ last' = Op("set_color", body, key(body) \in DOMAIN rb2color,
                      IF key(body) \in DOMAIN rb2color THEN color_by[key(body)] ELSE 0, color)
        /\ UNCHANGED << heap, allocs, rand, rb2sn, cameras, aabbs, window, fatal, sn_by >>

\* The window has room for the scene objects the shape's leaves ask for.
Room(shape) == Cardinality(window) + Len(Leaves(shape)) <= MaxObjects

\* add_with_color pushing the new nodes after those the body already has.
add_with_color_extends(body, color) ==
    LET rb  == heap[body.addr].rb
        old == IF key(body) \in DOMAIN rb2sn THEN rb2sn[key(body)] ELSE << >>
        r   == add_shape(window, body, rb, IsoOne, rb.shape, color, old)
    IN  IF ~try_borrow(heap[body.addr].borrow)
        THEN /\ fatal' = TRUE
             /\ UNCHANGED << heap, allocs, rb2sn, rb2color, cameras, aabbs, window, sn_by,
                             color_by >>
        ELSE /\ window' = r.window
             /\ fatal' = r.panic
             /\ rb2sn' = IF r.panic THEN rb2sn ELSE Insert(rb2sn, key(body), r.out)
             /\ sn_by' = IF r.panic THEN sn_by ELSE Insert(sn_by, key(body), body.id)
             /\ heap' = Dropped([heap EXCEPT ![body.addr].borrow = drop(Ref(@))], rb2sn')
             /\ UNCHANGED << allocs, rb2color, cameras, aabbs, color_by >>

\* add_with_color taking an exclusive borrow of the body.
add_with_color_borrow_mut(body, color) ==
    LET rb == heap[body.addr].rb
        r  == add_shape(window, body, rb, IsoOne, rb.shape, color, << >>)
    IN  IF ~try_borrow_mut(heap[body.addr].borrow)
        THEN /\ fatal' = TRUE
             /\ UNCHANGED << heap, allocs, rb2sn, rb2color, cameras, aabbs, window, sn_by,
                             color_by >>
        ELSE /\ window' = r.window
             /\ fatal' = r.panic
             /\ rb2sn' = IF r.panic THEN rb2sn ELSE Insert(rb2sn, key(body), r.out)
             /\ sn_by' = IF r.panic THEN sn_by ELSE Insert(sn_by, key(body), body.id)
             /\ heap' = Dropped(heap, rb2sn')
             /\ UNCHANGED << allocs, rb2color, cameras, aabbs, color_by >>

\* GraphicsManager::add_with_color, entered from the caller or from add
\* (which has set rand and last).  let rb = body.borrow() panics when the
\* body is borrowed exclusively; the Ref is held while add_shape runs (the
\* borrows add_plane, add_ball and add_box take inside it are shared ones on
\* top of it, dropped at once) and dropped at the end of the block, on a
\* panic of add_shape too.
add_with_color(body, color) ==
    LET rb == heap[body.addr].rb
        r  == add_shape(window, body, rb, IsoOne, rb.shape, color, << >>)
    IN  IF ~try_borrow(heap[body.addr].borrow)
        THEN /\ fatal' = TRUE
             /\ UNCHANGED << heap, allocs, rb2sn, rb2color, cameras, aabbs, window, sn_by,
                             color_by >>
        ELSE /\ window' = r.window
             /\ fatal' = r.panic
             /\ rb2sn' = IF r.panic THEN rb2sn ELSE Insert(rb2sn, key(body), r.out)
             /\ sn_by' = IF r.panic THEN sn_by ELSE Insert(sn_by, key(body), body.id)
             /\ heap' = Dropped([heap EXCEPT ![body.addr].borrow = drop(Ref(@))], rb2sn')
             /\ UNCHANGED << allocs, rb2color, cameras, aabbs, color_by >>

\* add drawing a color before it asks whether the body can move.
add_draws_first(a) ==
    LET body   == Handle(a, heap[a])
        cached == key(body) \in DOMAIN rb2color
        color  == IF cached THEN rb2color[key(body)]
                  ELSE IF ~try_borrow(heap[a].borrow) THEN NoColor
                  ELSE IF heap[a].rb.can_move THEN gen(rand)
                  ELSE Gray
    IN  /\ Callable(a)
        /\ Room(heap[a].rb.shape)
        /\ ~cached => rand < WarmUp + MaxDraws
        /\ rand' = IF ~cached THEN rand + 1 ELSE rand
        /\ add_with_color(body, color)
        /\ last' = Op("add", body, cached, IF cached THEN color_by[key(body)] ELSE 0, color)

\* add drawing a color for every body that can move, a cached color or not.
add_draws_when_cached(a) ==
    LET body   == Handle(a, heap[a])
        cached == key(body) \in DOMAIN rb2color
        draws  == try_borrow(heap[a].borrow) /\ heap[a].rb.can_move
        color  == IF cached THEN rb2color[key(body)]
                  ELSE IF ~try_borrow(heap[a].borrow) THEN NoColor
                  ELSE IF heap[a].rb.can_move THEN gen(rand)
                  ELSE Gray
    IN  /\ Callable(a)
        /\ Room(heap[a].rb.shape)
        /\ draws => rand < WarmUp + MaxDraws
        /\ rand' = IF draws THEN rand + 1 ELSE rand
        /\ add_with_color(body, color)
        /\ last' = Op("add", body, cached, IF cached THEN color_by[key(body)] ELSE 0, color)

\* GraphicsManager::add.  body.borrow().can_move() is reached when the cache
\* holds no color: it panics when the body is borrowed exclusively, as the
\* borrow of add_with_color does when the cache holds one.
add(a) ==
    LET body   == Handle(a, heap[a])
        cached == key(body) \in DOMAIN rb2color
        draws  == ~cached /\ try_borrow(heap[a].borrow) /\ heap[a].rb.can_move
        color  == IF cached THEN rb2color[key(body)]
                  ELSE IF ~try_borrow(heap[a].borrow) THEN NoColor
                  ELSE IF heap[a].rb.can_move THEN gen(rand)
                  ELSE Gray
    IN  /\ Callable(a)
        /\ Room(heap[a].rb.shape)
        /\ draws => rand < WarmUp + MaxDraws
        /\ rand' = IF draws THEN rand + 1 ELSE rand
        /\ add_with_color(body, color)
        /\ last' = Op("add", body, cached, IF cached THEN color_by[key(body)] ELSE 0, color)

\* add_with_color preferring the color the cache holds for the body.
add_with_color_cached(a, color) ==
    /\ Callable(a)
    /\ Room(heap[a].rb.shape)
    /\ add_with_color(Handle(a, heap[a]),
                      IF key(Handle(a, heap[a])) \in DOMAIN rb2color
                      THEN rb2color[key(Handle(a, heap[a]))] ELSE color)
    /\ last' = Op("add_with_color", Handle(a, heap[a]), FALSE, 0, color)
    /\ UNCHANGED rand

\* add_with_color called by the user of the registry.
AddWithColor(a, color) ==
    /\ Callable(a)
    /\ Room(heap[a].rb.shape)
    /\ add_with_color(Handle(a, heap[a]), color)
    /\ last' = Op("add_with_color", Handle(a, heap[a]), FALSE, 0, color)
    /\ UNCHANGED rand

\* GraphicsManager::body_to_scene_node: the nodes of the body, or None.
body_to_scene_node(rb) ==
    IF key(rb) \in DOMAIN rb2sn THEN [some |-> TRUE, nodes |-> rb2sn[key(rb)]]
    ELSE [some |-> FALSE]

\* The operations of the registry.
Registry ==
    \/ clear
    \/ \E a \in Addr : remove(a)
    \/ \E a \in Addr : \E c \in Palette : set_color(a, c)
    \/ \E a \in Addr : add(a)
    \/ \E a \in Addr : \E c \in Palette : AddWithColor(a, c)

Next == Registry

\* The simulation drops its handle to the body at a: the body lives on
\* while a node of the registry holds a handle to it.
Release(a) ==
    /\ Callable(a)
    /\ heap' = Dropped([heap EXCEPT ![a].sim = FALSE], rb2sn)
    /\ last' = Op("release", Handle(a, heap[a]), FALSE, 0, NoColor)
    /\ UNCHANGED << allocs, rand, rb2sn, rb2color, cameras, aabbs, window, fatal, sn_by,
                    color_by >>

\* The simulation creates a body: the allocator may place it at any free
\* address, one that held an earlier body included.
Create(a, rb) ==
    /\ ~fatal
    /\ ~heap[a].live
    /\ allocs < MaxAllocs
    /\ heap' = [heap EXCEPT ![a] = [live |-> TRUE, id |-> allocs + 1, sim |-> TRUE, rb |-> rb,
                                    borrow |-> UNUSED]]
    /\ allocs' = allocs + 1
    /\ last' = Op("create", [addr |-> a, id |-> allocs + 1], FALSE, 0, NoColor)
    /\ UNCHANGED << rand, rb2sn, rb2color, cameras, aabbs, window, fatal, sn_by, color_by >>

NextLife ==
    \/ Registry
    \/ \E a \in Addr : Release(a)
    \/ \E a \in Addr : \E rb \in Companions : Create(a, rb)

\* The registry driven over a fixed world of bodies.
Spec == Init /\ [][Next]_vars

\* A world of balls and planes.
InitLife == Fresh([a \in Addr |-> Companions])

\* The registry driven while the simulation releases and creates bodies.
SpecLife == InitLife /\ [][NextLife]_vars

\* ---------------------------------------------------------------- frames

\* HashMap::iter_mut: the keys of the map in the order the table yields
\* them, which is any order.
Orders(m) ==
    { o \in [1..Cardinality(DOMAIN m) -> DOMAIN m] :
        \A i, j \in 1..Cardinality(DOMAIN m) : o[i] = o[j] => i = j }

\* for (_, ns) in self.rb2sn.iter_mut() { for n in ns.iter_mut() ... }: the
\* nodes visited, entry by entry in the order o and each entry from its
\* first node to its last, from the j-th entry on.
RECURSIVE Visited(_, _)
Visited(o, j) ==
    IF j > Len(o) THEN << >>
    ELSE rb2sn[o[j]] \o Visited(o, j + 1)

\* The nodes of ns that a walk reaches which borrows the body of each node
\* in turn: those before the first node whose body is borrowed exclusively,
\* where the borrow panics.
RECURSIVE Reached(_)
Reached(ns) ==
    IF ns = << >> THEN << >>
    ELSE IF ~try_borrow(heap[Head(ns).body.addr].borrow) THEN << >>
    ELSE << Head(ns) >> \o Reached(Tail(ns))

\* Node::update: the pose of the node's body, composed with the node's
\* transform, pushed to the node's scene object.
update(n) ==
    [object    |-> n.object,
     transform |-> IF n.kind = "Plane" THEN heap[n.body.addr].rb.position
                   ELSE IsoMul(heap[n.body.addr].rb.position, n.delta)]

\* The three lines draw_positions draws for a node: from the center of its
\* body, red along x, green along y, blue along z.
Axes(n) ==
    LET center == << heap[n.body.addr].rb.position.tx, heap[n.body.addr].rb.position.ty >>
    IN  << [from |-> center, axis |-> "x", color |-> << 1, 0, 0 >>],
           [from |-> center, axis |-> "y", color |-> << 0, 1, 0 >>],
           [from |-> center, axis |-> "z", color |-> << 0, 0, 1 >>] >>

\* The lines drawn for the nodes ns, node by node.
RECURSIVE Lines(_)
Lines(ns) == IF ns = << >> THEN << >> ELSE Axes(Head(ns)) \o Lines(Tail(ns))

\* draw updating the first node of every entry only.
draw_first_nodes ==
    /\ ~fatal
    /\ \E o \in Orders(rb2sn) :
          last' = Op("draw", NoHandle, FALSE, 0, NoColor)
                     @@ [order   |-> o,
                         updated |-> [j \in 1..Len(SelectSeq(o, LAMBDA k : rb2sn[k] # << >>)) |->
                                         update(rb2sn[SelectSeq(o, LAMBDA k : rb2sn[k] # << >>)[j]][1])]]
    /\ fatal' = \E a \in Held(rb2sn) : ~try_borrow(heap[a].borrow)
    /\ UNCHANGED << heap, allocs, rand, rb2sn, rb2color, cameras, aabbs, window, sn_by,
                    color_by >>

\* GraphicsManager::draw.  An update borrows the body of its node for the
\* time it reads the pose.  last records the order the entries were visited
\* in and the updates made, in the order they were made.
draw ==
    /\ ~fatal
    /\ \E o \in Orders(rb2sn) :
          last' = Op("draw", NoHandle, FALSE, 0, NoColor)
                     @@ [order   |-> o,
                         updated |-> [i \in 1..Len(Reached(Visited(o, 1))) |->
                                         update(Reached(Visited(o, 1))[i])]]
    /\ fatal' = \E a \in Held(rb2sn) : ~try_borrow(heap[a].borrow)
    /\ UNCHANGED << heap, allocs, rand, rb2sn, rb2color, cameras, aabbs, window, sn_by,
                    color_by >>

\* GraphicsManager::draw_positions.  let rb = n.body().borrow() is taken and
\* dropped once per node.  The lines are drawn for one frame: the window
\* keeps none of them; last records them in the order drawn.
draw_positions ==
    /\ ~fatal
    /\ \E o \in Orders(rb2sn) :
          last' = Op("draw_positions", NoHandle, FALSE, 0, NoColor)
                     @@ [order |-> o,
                         lines |-> Lines(Reached(Visited(o, 1)))]
    /\ fatal' = \E a \in Held(rb2sn) : ~try_borrow(heap[a].borrow)
    /\ heap' = [a \in Addr |->
                  IF a \in Held(rb2sn) /\ try_borrow(heap[a].borrow)
                  THEN [heap[a] EXCEPT !.borrow = drop(Ref(@))] ELSE heap[a]]
    /\ UNCHANGED << allocs, rand, rb2sn, rb2color, cameras, aabbs, window, sn_by,
                    color_by >>

NextFrame ==
    \/ Registry
    \/ draw
    \/ draw_positions

\* A world of solids.
InitSolids == Fresh([a \in Addr |-> IF a = 1 THEN Solids ELSE Companions])

\* The registry driven frame by frame over the world of solids.
SpecFrame == InitSolids /\ [][NextFrame]_vars

\* --------------------------------------------------------------- borrows

\* The caller takes a shared borrow of the body at a and keeps it.
Borrow(a) ==
    /\ Callable(a)
    /\ try_borrow(heap[a].borrow)
    /\ heap[a].borrow < MaxBorrows
    /\ heap' = [heap EXCEPT ![a].borrow = Ref(@)]
    /\ last' = Op("borrow", Handle(a, heap[a]), FALSE, 0, NoColor)
    /\ UNCHANGED << allocs, rand, rb2sn, rb2color, cameras, aabbs, window, fatal, sn_by,
                    color_by >>

\* The caller takes the exclusive borrow of the body at a and keeps it.
BorrowMut(a) ==
    /\ Callable(a)
    /\ try_borrow_mut(heap[a].borrow)
    /\ heap' = [heap EXCEPT ![a].borrow = WRITING]
    /\ last' = Op("borrow_mut", Handle(a, heap[a]), FALSE, 0, NoColor)
    /\ UNCHANGED << allocs, rand, rb2sn, rb2color, cameras, aabbs, window, fatal, sn_by,
                    color_by >>

\* The caller drops a borrow it kept.
Unborrow(a) ==
    /\ Callable(a)
    /\ heap[a].borrow # UNUSED
    /\ heap' = [heap EXCEPT ![a].borrow = IF @ = WRITING THEN UNUSED ELSE drop(@)]
    /\ last' = Op("unborrow", Handle(a, heap[a]), FALSE, 0, NoColor)
    /\ UNCHANGED << allocs, rand, rb2sn, rb2color, cameras, aabbs, window, fatal, sn_by,
                    color_by >>

NextBorrow ==
    \/ \E a \in Addr : add(a)
    \/ \E a \in Addr : AddWithColor(a, Red)
    \/ \E a \in Addr : remove(a)
    \/ \E a \in Addr : set_color(a, Blue)
    \/ draw_positions
    \/ \E a \in Addr : Borrow(a)
    \/ \E a \in Addr : BorrowMut(a)
    \/ \E a \in Addr : Unborrow(a)

\* The world of balls_vee.rs: a ball that moves and a plane that does not.
Vee == [a \in Addr |-> { rb \in Companions : rb.can_move = (a = 1) }]

InitVee == Fresh(Vee)

\* The registry driven while the caller borrows the bodies.
SpecBorrow == InitVee /\ [][NextBorrow]_vars

\* --------------------------------------------------------------- cameras

\* The points a caller looks from and at (balls_vee.rs, compound.rs) and
\* those of the cameras new makes.
Points == { << 10, 10, 10 >>, << 0, 0, 0 >>, << -10, 50, -10 >>, << -30, 30, -30 >> }

\* The look-at contract the two cameras share: look_at_z(eye, at) puts the
\* camera at eye, looking at at; eye() and at() read them back.
look_at_z(cam, eye, at) == [cam EXCEPT !.eye = eye, !.at = at]

eye(cam) == cam.eye

at(cam) == cam.at

\* GraphicsManager::camera: the active camera.
camera == IF curr_is_arc_ball THEN arc_ball ELSE first_person

\* A camera operation as last records it: with the operation called before
\* it, and the active camera and its eye and target when it was called.
View(op) ==
    Op(op, NoHandle, FALSE, 0, NoColor)
        @@ [prev |-> last.op, arc |-> curr_is_arc_ball, eye |-> eye(camera), at |-> at(camera)]

\* switch_cameras seeding the active camera from the one it switches to.
switch_cameras_seeds_active ==
    /\ ~fatal
    /\ IF curr_is_arc_ball
       THEN /\ arc_ball' = look_at_z(arc_ball, eye(first_person), at(first_person))
            /\ UNCHANGED first_person
       ELSE /\ first_person' = look_at_z(first_person, eye(arc_ball), at(arc_ball))
            /\ UNCHANGED arc_ball
    /\ curr_is_arc_ball' = ~curr_is_arc_ball
    /\ last' = View("switch_cameras")
    /\ UNCHANGED << heap, allocs, rand, rb2sn, rb2color, aabbs, window, fatal, sn_by,
                    color_by >>

\* GraphicsManager::switch_cameras
switch_cameras ==
    /\ ~fatal
    /\ IF curr_is_arc_ball
       THEN /\ first_person' = look_at_z(first_person, eye(arc_ball), at(arc_ball))
            /\ UNCHANGED arc_ball
       ELSE /\ arc_ball' = look_at_z(arc_ball, eye(first_person), at(first_person))
            /\ UNCHANGED first_person
    /\ curr_is_arc_ball' = ~curr_is_arc_ball
    /\ last' = View("switch_cameras")
    /\ UNCHANGED << heap, allocs, rand, rb2sn, rb2color, aabbs, window, fatal, sn_by,
                    color_by >>

\* GraphicsManager::look_at
look_at(e, a) ==
    /\ ~fatal
    /\ arc_ball' = look_at_z(arc_ball, e, a)
    /\ first_person' = look_at_z(first_person, e, a)
    /\ last' = View("look_at")
    /\ UNCHANGED << heap, allocs, rand, rb2sn, rb2color, curr_is_arc_ball, aabbs, window,
                    fatal, sn_by, color_by >>

\* The window hands the events of a frame to the camera that camera()
\* returned: the active camera moves, the other one stays.
handle_event(e, a) ==
    /\ ~fatal
    /\ IF curr_is_arc_ball
       THEN /\ arc_ball' = look_at_z(arc_ball, e, a)
            /\ UNCHANGED first_person
       ELSE /\ first_person' = look_at_z(first_person, e, a)
            /\ UNCHANGED arc_ball
    /\ last' = View("handle_event")
    /\ UNCHANGED << heap, allocs, rand, rb2sn, rb2color, curr_is_arc_ball, aabbs, window,
                    fatal, sn_by, color_by >>

NextCam ==
    \/ switch_cameras
    \/ \E e \in Points : \E a \in Points \ {e} : look_at(e, a)
    \/ \E e \in Points : \E a \in Points \ {e} : handle_event(e, a)

\* The cameras driven by the caller and by the events of the window.
SpecCam == InitLife /\ [][NextCam]_vars

\* ------------------------------------------------------------ properties

\* The nodes stored for key k, none when the key has no entry.
NodesOf(sn, k) == IF k \in DOMAIN sn THEN sn[k] ELSE << >>

\* The scene objects the nodes of the registry hold.
Owned == UNION { Objects(rb2sn[k]) : k \in DOMAIN rb2sn }

\* The kind of node the classifier builds for a leaf shape.
NodeKind(shape) == IF shape.kind = "Cuboid" THEN "Box" ELSE shape.kind

\* The shape of the body a handle refers to.
ShapeOf(body) == heap[body.addr].rb.shape

\* The kinds of shape the classifier has a branch for.
LeafKinds ==
    { "Plane", "Ball", "Cuboid", "Convex", "Cylinder", "Cone", "BezierSurface", "Mesh" }

\* Every leaf of the shape tree is of a kind the classifier has a branch
\* for, and every mesh among them holds whole triangles.
Renderable(shape) ==
    \A i \in 1..Len(Leaves(shape)) :
        /\ Leaves(shape)[i].kind \in LeafKinds
        /\ Leaves(shape)[i].kind = "Mesh" => Len(Leaves(shape)[i].indices) % ChunkLen = 0

\* C1: every body with an entry in the registry map has one node per leaf
\* shape of its shape tree in that entry, each node holding a handle to that
\* body, after any sequence of add, add_with_color, set_color, remove and
\* clear, re-adding a registered body included.
C1_OneEntryPerBody ==
    \A a \in Addr :
        heap[a].live /\ key(Handle(a, heap[a])) \in DOMAIN rb2sn =>
            LET sns == rb2sn[key(Handle(a, heap[a]))]
            IN  /\ Len(sns) = Len(Leaves(heap[a].rb.shape))
                /\ \A i \in 1..Len(sns) : sns[i].body = Handle(a, heap[a])

\* A body was added while it was registered (the scene objects of its
\* earlier nodes are still in the window) and has its one node.
C1_Witness ==
    /\ last.op = "add"
    /\ ~fatal
    /\ window \ Owned # {}
    /\ Len(NodesOf(rb2sn, key(last.body))) = 1

\* C2: add(body) of a body whose shape tree has L leaves (each of a kind
\* the classifier knows, a mesh holding whole triangles) returns and stores
\* an entry of L nodes, one per leaf and none for a compound, of the leaves'
\* kinds, in the order of the depth-first, left-to-right traversal.
C2_LeavesDepthFirst ==
    last.op = "add" /\ Renderable(ShapeOf(last.body)) =>
        /\ ~fatal
        /\ key(last.body) \in DOMAIN rb2sn
        /\ LET sns    == rb2sn[key(last.body)]
               leaves == Leaves(ShapeOf(last.body))
           IN  /\ Len(sns) = Len(leaves)
               /\ \A i \in 1..Len(sns) : sns[i].kind = NodeKind(leaves[i])

\* The terrain, whose second leaf lies two compounds down, was added: its
\* nodes are the mesh, the convex hull and the bezier patch, in that order.
C2_Witness ==
    /\ last.op = "add"
    /\ ~fatal
    /\ ShapeOf(last.body) = Terrain
    /\ [i \in 1..Len(NodesOf(rb2sn, key(last.body))) |-> rb2sn[key(last.body)][i].kind]
          = << "Mesh", "Convex", "BezierSurface" >>

\* C3: the color of a body's nodes does not change over remove and add: a
\* body with no color-cache entry that is removed and then added gets nodes
\* of the color its removed nodes had.
C3_ColorStable ==
    [][ ( /\ last.op = "remove"
          /\ last.found
          /\ last.color # NoColor
          /\ key(last.body) \notin DOMAIN rb2color
          /\ last'.op = "add"
          /\ last'.body = last.body
          /\ ~fatal' )
        => \A i \in 1..Len(NodesOf(rb2sn', key(last.body))) :
              rb2sn'[key(last.body)][i].color = last.color ]_vars

\* C4: add(b) of a body with a color-cache entry stores b's nodes, each of
\* the cached color, and the entry of a key is written by set_color for that
\* key alone: remove, clear, add, add_with_color and set_color for other
\* bodies leave it as it is.
C4_CachedColorPersists ==
    [][ /\ ( last'.op = "add" /\ last'.found =>
               /\ Renderable(ShapeOf(last'.body)) =>
                     ~fatal' /\ key(last'.body) \in DOMAIN rb2sn'
               /\ \A i \in 1..Len(NodesOf(rb2sn', key(last'.body))) :
                     rb2sn'[key(last'.body)][i].color = rb2color[key(last'.body)] )
        /\ ( last'.op # "set_color" => rb2color' = rb2color )
        /\ ( last'.op = "set_color" =>
               /\ rb2color'[key(last'.body)] = last'.color
               /\ \A k \in DOMAIN rb2color \ {key(last'.body)} :
                     k \in DOMAIN rb2color' /\ rb2color'[k] = rb2color[k] ) ]_vars

\* A movable body was added while the color cache held red for its key: all
\* its nodes are red.
C4_Witness ==
    /\ last.op = "add"
    /\ last.found
    /\ ~fatal
    /\ heap[last.body.addr].rb.can_move
    /\ rb2color[key(last.body)] = Red
    /\ NodesOf(rb2sn, key(last.body)) # << >>
    /\ \A i \in 1..Len(rb2sn[key(last.body)]) : rb2sn[key(last.body)][i].color = Red

\* C5: after clear() no body has an entry and the window holds no scene
\* object the registry created.
C5_ClearEmptiesWindow ==
    last.op = "clear" =>
        /\ \A a \in Addr : heap[a].live => ~body_to_scene_node(Handle(a, heap[a])).some
        /\ window = {}

\* C6: add of a mesh whose index buffer holds n indices, n no multiple of
\* three, returns, and the mesh node has the n \div 3 triangles of the first
\* 3 * (n \div 3) indices.
C6_MeshTruncates ==
    ( /\ last.op \in { "add", "add_with_color" }
      /\ ShapeOf(last.body).kind = "Mesh"
      /\ Len(ShapeOf(last.body).indices) % ChunkLen # 0 )
    => /\ ~fatal
       /\ key(last.body) \in DOMAIN rb2sn
       /\ Len(rb2sn[key(last.body)]) = 1
       /\ rb2sn[key(last.body)][1].is =
             [i \in 1..(Len(ShapeOf(last.body).indices) \div ChunkLen) |->
                 << ShapeOf(last.body).indices[ChunkLen * i - 2],
                    ShapeOf(last.body).indices[ChunkLen * i - 1],
                    ShapeOf(last.body).indices[ChunkLen * i] >>]

\* C7: remove(b) of a registered body takes the scene objects of b's nodes,
\* and no other, out of the window and erases b's entry, and leaves the color
\* cache, the entries of the other bodies, the color stream and the cameras
\* as they are.
C7_RemoveFrame ==
    [][ last'.op = "remove" /\ last'.found =>
          /\ key(last'.body) \in DOMAIN rb2sn
          /\ window' = window \ Objects(rb2sn[key(last'.body)])
          /\ DOMAIN rb2sn' = DOMAIN rb2sn \ {key(last'.body)}
          /\ \A k \in DOMAIN rb2sn' : rb2sn'[k] = rb2sn[k]
          /\ rb2color' = rb2color
          /\ rand' = rand
          /\ cameras' = cameras
          /\ ~fatal' ]_vars

\* A body with nodes and a color-cache entry was removed while another body
\* is registered with nodes.
C7_Witness ==
    /\ last.op = "remove"
    /\ last.found
    /\ last.color # NoColor
    /\ key(last.body) \in DOMAIN rb2color
    /\ Owned # {}

\* C8: remove(b) of a body with no entry panics not and leaves the registry
\* map, the color cache and the window as they are; a remove that follows a
\* remove of the same body finds no entry; and a body just removed is looked
\* up as absent.
C8_RemoveAbsent ==
    /\ [][ last'.op = "remove" /\ ~last'.found =>
             /\ ~body_to_scene_node(last'.body).some
             /\ rb2sn' = rb2sn
             /\ rb2color' = rb2color
             /\ window' = window
             /\ ~fatal' ]_vars
    /\ [][ last.op = "remove" /\ last'.op = "remove" /\ last'.body = last.body =>
             ~last'.found ]_vars
    /\ [](last.op = "remove" => ~body_to_scene_node(last.body).some)

\* A body with no entry was removed while another body is registered with
\* nodes and the color cache is not empty.
C8_Witness ==
    /\ last.op = "remove"
    /\ ~last.found
    /\ Owned # {}
    /\ rb2color # EmptyMap

\* C9: the entry an add, a set_color or a remove finds under the key of the
\* body it was called for was written for that body.
C9_KeysCollisionFree ==
    last.op \in { "add", "set_color", "remove" } /\ last.found => last.by = last.body.id

\* C10: add(b) of a body that cannot move, with no color-cache entry for its
\* key, draws no color from the stream and gives every node gray.
C10_StaticGray ==
    [][ ( /\ last'.op = "add"
          /\ ~last'.found
          /\ ~heap[last'.body.addr].rb.can_move )
        => /\ rand' = rand
           /\ Renderable(ShapeOf(last'.body)) =>
                 ~fatal' /\ key(last'.body) \in DOMAIN rb2sn'
           /\ \A i \in 1..Len(NodesOf(rb2sn', key(last'.body))) :
                 rb2sn'[key(last'.body)][i].color = Gray ]_vars

\* The static terrain was added with no cached color: three gray nodes.
C10_Witness ==
    /\ last.op = "add"
    /\ ~last.found
    /\ ~fatal
    /\ ~heap[last.body.addr].rb.can_move
    /\ Len(NodesOf(rb2sn, key(last.body))) = 3
    /\ \A i \in 1..3 : rb2sn[key(last.body)][i].color = Gray

\* C11: set_color(b, C) writes the color-cache entry of b and nothing else:
\* the registry map (and with it the color of every node of b and of every
\* other body), the window's scene objects, the position of the color
\* stream and the cameras stay as they are; and the nodes of an entry change
\* only when an add or add_with_color replaces the entry, so that b's nodes
\* keep their color until b is added again.
C11_SetColorFrame ==
    [][ /\ ( last'.op = "set_color" =>
               /\ rb2sn' = rb2sn
               /\ window' = window
               /\ aabbs' = aabbs
               /\ rand' = rand
               /\ cameras' = cameras
               /\ ~fatal'
               /\ DOMAIN rb2color' = DOMAIN rb2color \cup {key(last'.body)}
               /\ rb2color'[key(last'.body)] = last'.color
               /\ \A k \in DOMAIN rb2color \ {key(last'.body)} : rb2color'[k] = rb2color[k] )
        /\ ( last'.op \notin { "add", "add_with_color" } =>
               \A k \in DOMAIN rb2sn' : k \in DOMAIN rb2sn /\ rb2sn'[k] = rb2sn[k] ) ]_vars

\* set_color was called with a color for a registered body whose node has
\* another color, while the other body is registered too.
C11_Witness ==
    /\ last.op = "set_color"
    /\ key(last.body) \in DOMAIN rb2sn
    /\ Len(rb2sn[key(last.body)]) >= 1
    /\ rb2sn[key(last.body)][1].color # last.color
    /\ rb2color[key(last.body)] = last.color
    /\ Cardinality(DOMAIN rb2sn) = 2

\* C12: add_with_color(b, C) gives every node it stores for b the color C,
\* whatever color the cache holds for b and whether b can move or not, and
\* leaves the color cache and the position of the color stream as they are.
C12_GivenColor ==
    [][ last'.op = "add_with_color" =>
          /\ Renderable(ShapeOf(last'.body)) =>
                /\ ~fatal'
                /\ key(last'.body) \in DOMAIN rb2sn'
                /\ Len(rb2sn'[key(last'.body)]) = Len(Leaves(ShapeOf(last'.body)))
          /\ ~fatal' =>
                \A i \in 1..Len(NodesOf(rb2sn', key(last'.body))) :
                    rb2sn'[key(last'.body)][i].color = last'.color
          /\ rb2color' = rb2color
          /\ rand' = rand ]_vars

\* A body that cannot move, for which the cache holds red, was added with
\* blue: its three nodes are blue and the cache still holds red.
C12_Witness ==
    /\ last.op = "add_with_color"
    /\ last.color = Blue
    /\ ~fatal
    /\ ~heap[last.body.addr].rb.can_move
    /\ key(last.body) \in DOMAIN rb2color
    /\ rb2color[key(last.body)] = Red
    /\ Len(NodesOf(rb2sn, key(last.body))) = 3
    /\ \A i \in 1..3 : rb2sn[key(last.body)][i].color = Blue

\* C13: the colors are a function of the operations called: the registry
\* starts 100 colors into the stream of the fixed seed; an add of a body
\* that can move and has no cached color is the only operation that advances
\* the stream, by one, and the k-th such add gets the value number 100 + k of
\* the stream (its nodes are of that color); adds of bodies that cannot
\* move, adds with a cached color, add_with_color, set_color, remove and
\* clear leave the stream where it is.
C13_StreamDeterministic ==
    /\ [](last.op = "new" => rand = WarmUp)
    /\ [][ IF /\ last'.op = "add"
              /\ ~last'.found
              /\ heap[last'.body.addr].rb.can_move
           THEN /\ rand' = rand + 1
                /\ last'.color = XorShiftStream[rand' - WarmUp]
                /\ ~fatal' =>
                      \A i \in 1..Len(NodesOf(rb2sn', key(last'.body))) :
                          rb2sn'[key(last'.body)][i].color = XorShiftStream[rand' - WarmUp]
           ELSE rand' = rand ]_vars

\* The second add that draws: the body's node has the value number 102 of
\* the stream, and a scene object of an earlier node set is still in the
\* window.
C13_Witness ==
    /\ last.op = "add"
    /\ ~last.found
    /\ ~fatal
    /\ heap[last.body.addr].rb.can_move
    /\ rand = WarmUp + 2
    /\ NodesOf(rb2sn, key(last.body)) # << >>
    /\ rb2sn[key(last.body)][1].color = << 10401749, 6294601, 2710208 >>
    /\ window \ Owned # {}

\* The local transforms of the compound entries above each leaf of a shape
\* tree, outermost first, the leaves in depth-first order.
RECURSIVE Paths(_)
Paths(shape) ==
    IF shape.kind = "Compound"
    THEN LET RECURSIVE Cat(_)
             Cat(i) ==
                 IF i > Len(shape.shapes) THEN << >>
                 ELSE [j \in 1..Len(Paths(shape.shapes[i][2])) |->
                          << shape.shapes[i][1] >> \o Paths(shape.shapes[i][2])[j]]
                      \o Cat(i + 1)
         IN  Cat(1)
    ELSE << << >> >>

\* The composition of the transforms of a path, outermost first, from the
\* identity: ((1 * T1) * T2) * ...
RECURSIVE Composed(_)
Composed(path) ==
    IF path = << >> THEN IsoOne
    ELSE IsoMul(Composed(SubSeq(path, 1, Len(path) - 1)), path[Len(path)])

\* C14: the transform of every node that is no plane is the composition,
\* outermost first and from the identity, of the local transforms of the
\* compound entries above its leaf: T2 * T for a leaf at T in a compound at
\* T2, the identity for a leaf at the root.
C14_TransformsCompose ==
    last.op \in { "add", "add_with_color" } /\ Renderable(ShapeOf(last.body)) =>
        /\ ~fatal
        /\ key(last.body) \in DOMAIN rb2sn
        /\ LET sns   == rb2sn[key(last.body)]
               paths == Paths(ShapeOf(last.body))
           IN  /\ Len(sns) = Len(paths)
               /\ \A i \in 1..Len(sns) :
                     sns[i].kind # "Plane" => sns[i].delta = Composed(paths[i])

\* The cross was added: its box, at Iso(0, 0, -5) in the root compound, has
\* that transform, and its cylinder, at Iso(1, 2, 0) in the compound at
\* Iso(1, -5, 0), has the product Iso(2, -5, 2), which is not the product
\* taken the other way round.
C14_Witness ==
    /\ last.op = "add"
    /\ ~fatal
    /\ ShapeOf(last.body) = Cross
    /\ Len(NodesOf(rb2sn, key(last.body))) = 2
    /\ rb2sn[key(last.body)][1].delta = Iso(0, 0, -5)
    /\ rb2sn[key(last.body)][2].delta = Iso(2, -5, 2)
    /\ IsoMul(Iso(1, 2, 0), Iso(1, -5, 0)) # Iso(2, -5, 2)

C16_MarginAdded ==
    \A a \in Addr :
        key(Handle(a, heap[a])) \in DOMAIN rb2sn =>
            LET sns    == rb2sn[key(Handle(a, heap[a]))]
                leaves == Leaves(heap[a].rb.shape)
                m      == heap[a].rb.margin
            IN  /\ Len(sns) = Len(leaves)
                /\ \A i \in 1..Len(sns) :
                      /\ leaves[i].kind = "Ball" =>
                            sns[i].kind = "Ball" /\ sns[i].radius = leaves[i].radius + m
                      /\ leaves[i].kind = "Cuboid" =>
                            /\ sns[i].kind = "Box"
                            /\ << sns[i].rx, sns[i].ry, sns[i].rz >> =
                                  << leaves[i].half_extents[1] + m,
                                     leaves[i].half_extents[2] + m,
                                     leaves[i].half_extents[3] + m >>
                      /\ leaves[i].kind \in { "Cylinder", "Cone" } =>
                            /\ sns[i].kind = leaves[i].kind
                            /\ sns[i].r = leaves[i].radius
                            /\ sns[i].h = 2 * leaves[i].half_height

\* The body of margin 2 made of a ball of radius 1, a box of half-extents
\* (1, 1, 2) and a cone of half height 1 and radius 3 was added: a ball of
\* radius 3, a box of (3, 3, 4) and a cone of radius 3 and height 2.
C16_Witness ==
    /\ last.op \in { "add", "add_with_color" }
    /\ ~fatal
    /\ heap[last.body.addr].rb.margin = 2
    /\ Len(NodesOf(rb2sn, key(last.body))) = 3
    /\ rb2sn[key(last.body)][1].radius = 3
    /\ << rb2sn[key(last.body)][2].rx, rb2sn[key(last.body)][2].ry,
          rb2sn[key(last.body)][2].rz >> = << 3, 3, 4 >>
    /\ rb2sn[key(last.body)][3].r = 3
    /\ rb2sn[key(last.body)][3].h = 2

\* A shape of the tree is of a kind the classifier has no branch for.
Unrecognized(shape) ==
    \E i \in 1..Len(Leaves(shape)) : Leaves(shape)[i].kind \notin LeafKinds

\* C17: an add or add_with_color of a body whose shape tree holds a shape of
\* a kind the classifier has no branch for, at the root or in a compound
\* after leaves it has built nodes for, panics, and stores no entry: the
\* registry map is as it was before the call.
C17_UnrecognizedAborts ==
    [][ last'.op \in { "add", "add_with_color" } /\ Unrecognized(ShapeOf(last'.body)) =>
          /\ fatal'
          /\ rb2sn' = rb2sn
          /\ key(last'.body) \notin DOMAIN rb2sn' ]_vars

\* The body made of a cone followed by a capsule was added: the add
\* panicked after it had built the cone (its scene object is in the window)
\* and the body has no entry, while the other body has one.
C17_Witness ==
    /\ last.op = "add"
    /\ fatal
    /\ ShapeOf(last.body).kind = "Compound"
    /\ Unrecognized(ShapeOf(last.body))
    /\ key(last.body) \notin DOMAIN rb2sn
    /\ window \ Owned # {}
    /\ Owned # {}

\* C18: every scene object in the window (the registry created them all) is
\* the scene object of exactly one node of the registry map: none is left
\* without a node, none is shared by two nodes, as long as no operation has
\* panicked.
C18_ObjectsOwnedOnce ==
    ~fatal =>
        /\ window = Owned
        /\ \A k1, k2 \in DOMAIN rb2sn :
              \A i \in 1..Len(rb2sn[k1]) : \A j \in 1..Len(rb2sn[k2]) :
                  rb2sn[k1][i].object = rb2sn[k2][j].object => k1 = k2 /\ i = j

\* The places of the scene object o in the updates us.
Places(us, o) == { j \in 1..Len(us) : us[j].object = o }

\* C19: draw updates every node of every entry exactly once, the nodes of an
\* entry in the order of the entry; and draw and draw_positions leave the
\* registry map (its keys and its node sets), the color cache, the scene
\* objects the window holds and the position of the color stream as they are.
C19_DrawRefreshesAll ==
    [][ /\ ( last'.op = "draw" =>
               /\ last'.order \in Orders(rb2sn)
               /\ Len(last'.updated) = Cardinality(Owned)
               /\ \A k \in DOMAIN rb2sn : \A i \in 1..Len(rb2sn[k]) :
                     /\ Cardinality(Places(last'.updated, rb2sn[k][i].object)) = 1
                     /\ \A j \in 1..(i - 1) :
                           \A p \in Places(last'.updated, rb2sn[k][j].object) :
                               \A q \in Places(last'.updated, rb2sn[k][i].object) : p < q )
        /\ ( last'.op \in { "draw", "draw_positions" } =>
               /\ rb2sn' = rb2sn
               /\ rb2color' = rb2color
               /\ window' = window
               /\ rand' = rand
               /\ ~fatal' ) ]_vars

\* draw was called while a body of three nodes is registered and the window
\* holds their three scene objects: three updates, of the scene objects of
\* its nodes in the order of the nodes, the second with the pose of the body
\* composed with the transform of the node.
C19_Witness ==
    /\ last.op = "draw"
    /\ \E k \in DOMAIN rb2sn :
          /\ Len(rb2sn[k]) = 3
          /\ Len(last.updated) = 3
          /\ \A i \in 1..3 : last.updated[i].object = rb2sn[k][i].object
          /\ last.updated[2].transform = Iso(3, 1, 1)
          /\ rb2sn[k][2].delta = Iso(2, 0, 0)

\* C20: add, add_with_color and draw_positions leave the borrow flag of
\* every body as they found it, a shared borrow that the caller keeps
\* included, and panic on no borrow unless a body they read is borrowed
\* exclusively when they are called.
C20_SharedBorrowsReleased ==
    [][ last'.op \in { "add", "add_with_color", "draw_positions" } =>
          /\ \A a \in Addr : heap'[a].live /\ heap'[a].borrow = heap[a].borrow
          /\ ( \A a \in ( IF last'.op = "draw_positions" THEN Held(rb2sn)
                          ELSE {last'.body.addr} ) : heap[a].borrow # WRITING )
                => ~fatal' ]_vars

\* The ball was added while the caller keeps a shared borrow of it and the
\* exclusive borrow of the plane: the add returned, the ball has its node
\* (built with the margin read through a second borrow) and both flags are
\* as they were.
C20_Witness ==
    /\ last.op = "add"
    /\ ~fatal
    /\ heap[last.body.addr].borrow = 1
    /\ \E a \in Addr : heap[a].borrow = WRITING
    /\ Len(NodesOf(rb2sn, key(last.body))) = 1
    /\ rb2sn[key(last.body)][1].kind = "Ball"

====
